---- MODULE Spec2Model ----
(***************************************************************************)
(* Model of dwdatareader/__init__.py: the DWFile session over the          *)
(* DWDataReaderLib store, the DWChannel accessors, the chunked sample      *)
(* generator and the timestamp de-duplication.                             *)
(*                                                                         *)
(* The store (the shared library) is a black box: every status it returns  *)
(* is an input, drawn from Status.  What the model keeps of the store is   *)
(* what the session acquires from it: the reader created by               *)
(* DWICreateReader and the data file opened by DWIOpenDataFile.           *)
(***************************************************************************)
EXTENDS Integers, Sequences, FiniteSets, TLC

\* ---------------------------------------------------------------- bounds
MaxChannels == 2      \* channels in a catalog
MaxCloses == 2        \* close invocations on one session
MaxHeader == 1        \* header entries of a file
MaxSamples == 4       \* samples of a channel
MaxChunk == 4         \* the chunk_size argument
MaxTime == 3          \* distinct timestamp values
MaxLen == 4           \* timestamps handed to the de-duplication on its own
NThreads == 2         \* threads calling into one session

\* ------------------------------------------------------- DWStatus (67-82)
DWSTAT_OK == 0
DWSTAT_ERROR_INVALID_READER == 11
DWSTAT_ERROR_INSUFFICENT_BUFFER == 13

\* The statuses the store is taken to answer with.
Status ==
  {DWSTAT_OK, DWSTAT_ERROR_INVALID_READER, DWSTAT_ERROR_INSUFFICENT_BUFFER}

FailStatus == Status \ {DWSTAT_OK}

Min(a, b) == IF a <= b THEN a ELSE b

\* ------------------------------------------------------------- variables
VARIABLES
  closed,         \* DWFile.closed
  reader_handle,  \* DWFile.reader_handle: "h" or "None"
  channels,       \* DWFile.channels: NoneChannels or the sequence of DWChannel
  storeReader,    \* the store's reader behind "h": "live" or "destroyed"
  storeFile,      \* TRUE while the store has the data file open for "h"
  nCloseFile,     \* DWICloseDataFile calls issued so far
  nDestroy,       \* DWIDestroyReader calls issued so far
  nClose,         \* DWFile.close invocations so far
  pc,             \* "created", "opened", "openFailed", "crashed"
  heldCh,         \* a DWChannel the caller took from the session, or NoChannel
  last            \* the last operation: what was called and how it ended

sessVars ==
  <<closed, reader_handle, channels, storeReader, storeFile, nCloseFile,
    nDestroy, nClose, pc, heldCh, last>>

\* DWChannel.series_generator, one generator object.
VARIABLES
  gpc,            \* "none", "created", "running", "done", or how it ended
  samples,        \* the channel's sample count, as the store reports it
  array_size,     \* the channel's array_size
  array_index,    \* the array_index argument
  req_chunk,      \* the chunk_size argument
  chunk_size,     \* the local chunk_size
  step,           \* the step the range object was built with
  chunk,          \* the loop variable: the offset of the next fetch
  timeCap,        \* elements the array bound to `time` holds
  dataCap,        \* elements the array bound to `data` holds
  fetches,        \* the DWIGetScaledSamples calls issued, in order
  yielded         \* chunks yielded so far

genVars ==
  <<gpc, samples, array_size, array_index, req_chunk, chunk_size, step, chunk,
    timeCap, dataCap, fetches, yielded>>

\* The de-duplication np.unique(time, return_index=True) on its own.
VARIABLES
  upc,            \* "none", "input", "done"
  time_in,        \* the timestamps as retrieved
  time_out,       \* the de-duplicated timestamps
  ix              \* the row positions selected (0-based)

uniqVars == <<upc, time_in, time_out, ix>>

\* Threads calling into one open session.
VARIABLES
  tpc,            \* per thread: the statement it is at
  top,            \* per thread: the method it runs
  targ,           \* per thread: the handle it read for the call it is in
  inStore         \* the threads inside a store call on the session's reader

thrVars == <<tpc, top, targ, inStore>>

vars == <<sessVars, genVars, uniqVars, thrVars>>

\* What a session step leaves alone.
notSess == <<genVars, uniqVars, thrVars>>

\* ---------------------------------------------------------- the catalog
\* A DWChannel: the fields of DWChannelStruct the model reads, and the reader
\* handle DWChannel.__init__ stores in the channel object.
DWChannel(i, nm, asz, rh) ==
  [index |-> i, name |-> nm, array_size |-> asz, reader_handle |-> rh]

\* Python's None where a channel, or the channel list, is expected.
NoChannel == DWChannel(-1, "None", 0, "None")
NoneChannels == <<NoChannel>>

\* The channels a file may hold: the scalar channel "a", the array channel "b".
ChanKinds == {[name |-> "a", array_size |-> 1], [name |-> "b", array_size |-> 2]}

\* What DWIGetChannelList may hand back: n channels, indexed 0..n-1; names
\* are not unique.
Catalogs ==
  UNION {
    {[i \in 1..n |-> DWChannel(i - 1, k[i].name, k[i].array_size, "h")] :
       k \in [1..n -> ChanKinds]} :
    n \in 0..MaxChannels}

\* The keys DWFile.__getitem__ is given: an int, a str or a DWChannel.
Key(ty, i, nm) == [type |-> ty, index |-> i, name |-> nm]
NoKey == Key("none", -1, "None")

Keys ==
  {Key("int", i, "") : i \in 0..MaxChannels} \cup
  {Key("str", -1, nm) : nm \in {"a", "b", "zz"}} \cup
  {Key("DWChannel", i, nm) : i \in 0..MaxChannels, nm \in {"a", "zz"}}

\* ------------------------------------------------------------ store calls
\* One call into the store: the function, its property code or entry number
\* where it has one, the status it answered, the handle
\* passed, whether the reader behind that handle was already destroyed, and
\* whether the code passes the status to check_lib_status.
Call(fn, arg, st, h, chk) ==
  [fn |-> fn, arg |-> arg, status |-> st, handle |-> h,
   stale |-> (h = "h" /\ storeReader = "destroyed"), checked |-> chk]

\* check_lib_status: OK returns; anything else fetches the diagnostic text
\* with DWGetLastStatus and raises RuntimeError carrying status and text.
check_lib_status(status) ==
  IF status = DWSTAT_OK
    THEN [kind |-> "ok", status |-> DWSTAT_OK, msg |-> "none"]
    ELSE [kind |-> "RuntimeError", status |-> status, msg |-> "fetched"]

\* The first checked call of a planned sequence that answers non-OK, 0 if none.
FirstBad(planned) ==
  LET bad(i) == planned[i].checked /\ planned[i].status # DWSTAT_OK
  IN IF \E i \in 1..Len(planned) : bad(i)
       THEN CHOOSE i \in 1..Len(planned) :
              bad(i) /\ \A j \in 1..(i - 1) : ~bad(j)
       ELSE 0

\* The calls of a handler run in order; the first checked call that answers
\* non-OK raises out of the handler.
Run(planned) ==
  LET b == FirstBad(planned)
      chk == check_lib_status(IF b = 0 THEN DWSTAT_OK ELSE planned[b].status)
  IN [calls |-> IF b = 0 THEN planned ELSE SubSeq(planned, 1, b),
      kind |-> chk.kind, status |-> chk.status, msg |-> chk.msg]

\* The status of the k-th planned call when call f fails with s (f = 0: none).
St(f, s, k) == IF k = f THEN s ELSE DWSTAT_OK

\* One way to say "no call fails": f = 0 with the first failing status.
Canon(f, s) == f = 0 => s = DWSTAT_ERROR_INVALID_READER

\* ------------------------------------------------------------ DWFile.close
\* close without the `if not self.closed` guard.
close_impl_unguarded(c, rh, ch, s1, s2) ==
  [closed |-> TRUE, reader_handle |-> "None", channels |-> <<>>,
   calls |-> <<Call("DWICloseDataFile", "", s1, rh, FALSE)>> \o
             (IF rh # "None"
                THEN <<Call("DWIDestroyReader", "", s2, rh, FALSE)>>
                ELSE <<>>)]

\* close on a session whose fields are (c, rh, ch); s1 and s2 are the
\* statuses the store answers to DWICloseDataFile and DWIDestroyReader.
\* Neither status is looked at.
close_impl(c, rh, ch, s1, s2) ==
  IF ~c
    THEN [closed |-> TRUE, reader_handle |-> "None", channels |-> <<>>,
          calls |-> <<Call("DWICloseDataFile", "", s1, rh, FALSE)>> \o
                    (IF rh # "None"
                       THEN <<Call("DWIDestroyReader", "", s2, rh, FALSE)>>
                       ELSE <<>>)]
    ELSE [closed |-> c, reader_handle |-> rh, channels |-> ch, calls |-> <<>>]

Issued(calls, fn) == Cardinality({i \in 1..Len(calls) : calls[i].fn = fn})

Answered(calls, fn, h) ==
  \E i \in 1..Len(calls) :
    calls[i].fn = fn /\ calls[i].handle = h /\ calls[i].status = DWSTAT_OK

\* The store after a sequence of calls: a destroy answered OK ends the reader
\* and whatever it held; a close-file answered OK closes the data file
\* (`file`: a data file was open before the calls).
StoreReaderAfter(calls) ==
  IF storeReader = "live" /\ Answered(calls, "DWIDestroyReader", "h")
    THEN "destroyed" ELSE storeReader

StoreFileAfter(calls, file) ==
  /\ file
  /\ ~(storeReader = "live" /\ Answered(calls, "DWICloseDataFile", "h"))
  /\ ~(storeReader = "live" /\ Answered(calls, "DWIDestroyReader", "h"))

Last(op, calls, kind, status, msg) ==
  [op |-> op, calls |-> calls, kind |-> kind, status |-> status, msg |-> msg,
   wasClosed |-> closed, wasStale |-> storeReader = "destroyed",
   key |-> NoKey, ret |-> NoChannel]

\* ------------------------------------------------------------ DWFile.open
\* f is the planned call that fails (0: none), s its status.
open_calls(f, s) ==
  <<Call("DWIOpenDataFile", "", St(f, s, 1), reader_handle, TRUE),
    Call("DWIGetMeasurementInfo", "", St(f, s, 2), reader_handle, TRUE),
    Call("DWIGetChannelListCount", "", St(f, s, 3), reader_handle, TRUE),
    Call("DWIGetChannelList", "", St(f, s, 4), reader_handle, TRUE)>>

\* The value of self.closed when the except clause runs after `made` calls:
\* it is set False only after DWIGetMeasurementInfo has answered OK.
open_closed_at(made) == IF made >= 3 THEN FALSE ELSE closed

Open(cat, f, s, s1, s2) ==
  /\ pc = "created"
  /\ Canon(f, s)
  /\ f # 0 => cat = <<>>                    \* the catalog is not reached
  /\ f < 3 => s1 = DWSTAT_OK /\ s2 = DWSTAT_OK   \* no store call is made by close
  /\ LET run == Run(open_calls(f, s))
         made == Len(run.calls)
         fileNow == storeFile \/
                    (storeReader = "live" /\ run.calls[1].status = DWSTAT_OK)
         cl == close_impl(open_closed_at(made), reader_handle, channels, s1, s2)
     IN IF run.kind = "ok"
          THEN /\ closed' = FALSE
               /\ channels' = cat
               /\ storeFile' = fileNow
               /\ last' = Last("open", run.calls, "ok", DWSTAT_OK, "none")
               /\ pc' = "opened"
               /\ UNCHANGED <<reader_handle, storeReader, nCloseFile, nDestroy>>
          ELSE \* except RuntimeError: print(e); self.close(); raise
               /\ closed' = cl.closed
               /\ reader_handle' = cl.reader_handle
               /\ channels' = cl.channels
               /\ storeReader' = StoreReaderAfter(cl.calls)
               /\ storeFile' = StoreFileAfter(cl.calls, fileNow)
               /\ nCloseFile' = nCloseFile + Issued(cl.calls, "DWICloseDataFile")
               /\ nDestroy' = nDestroy + Issued(cl.calls, "DWIDestroyReader")
               /\ last' = Last("open", run.calls \o cl.calls, run.kind,
                               run.status, run.msg)
               /\ pc' = "openFailed"
  /\ UNCHANGED <<notSess, nClose, heldCh>>

\* No operation is under way.
IdleLast ==
  [op |-> "idle", calls |-> <<>>, kind |-> "ok", status |-> DWSTAT_OK,
   msg |-> "none", wasClosed |-> TRUE, wasStale |-> FALSE, key |-> NoKey,
   ret |-> NoChannel]

\* The caller may start an operation: the process runs and the last
\* operation has returned to it.
Alive == pc \in {"created", "opened", "openFailed"} /\ last.op = "idle"

\* close(), __exit__, __del__ and the atexit hook all run DWFile.close.
Close(s1, s2) ==
  /\ Alive
  /\ nClose < MaxCloses
  /\ LET cl == close_impl(closed, reader_handle, channels, s1, s2)
     IN /\ closed' = cl.closed
        /\ reader_handle' = cl.reader_handle
        /\ channels' = cl.channels
        /\ storeReader' = StoreReaderAfter(cl.calls)
        /\ storeFile' = StoreFileAfter(cl.calls, storeFile)
        /\ nCloseFile' = nCloseFile + Issued(cl.calls, "DWICloseDataFile")
        /\ nDestroy' = nDestroy + Issued(cl.calls, "DWIDestroyReader")
        /\ nClose' = nClose + 1
        /\ last' = Last("close", cl.calls, "ok", DWSTAT_OK, "none")
  /\ UNCHANGED <<notSess, pc, heldCh>>

\* ------------------------------------------------------ DWFile.__getitem__
\* ch.index == key: an int never equals a str.
IndexEqKey(ch, key) == key.type = "int" /\ ch.index = key.index

\* The test a branch of __getitem__ applies to each channel.
Matches(ch, key) ==
  IF key.type = "DWChannel"
    THEN ch.index = key.index \/ ch.name = key.name
    ELSE IndexEqKey(ch, key) \/ ch.name = key.name

\* The branches for a DWChannel key and for a str key scan the catalog and
\* return the first channel that matches; when none does the function falls
\* off its end and returns None.  Any other key raises KeyError.
getitem(chs, key) ==
  IF key.type \in {"DWChannel", "str"}
    THEN IF chs = NoneChannels
           THEN [kind |-> "TypeError", ch |-> NoChannel]
           ELSE IF \E i \in 1..Len(chs) : Matches(chs[i], key)
             THEN [kind |-> "value",
                   ch |-> chs[CHOOSE i \in 1..Len(chs) :
                                /\ Matches(chs[i], key)
                                /\ \A j \in 1..(i - 1) : ~Matches(chs[j], key)]]
             ELSE [kind |-> "None", ch |-> NoChannel]
    ELSE [kind |-> "KeyError", ch |-> NoChannel]

\* f[key]: the caller keeps the channel it is handed.
GetItem(key) ==
  /\ Alive
  /\ pc # "created"
  /\ LET got == getitem(channels, key)
     IN /\ last' = [Last("getitem", <<>>, got.kind, DWSTAT_OK, "none")
                      EXCEPT !.key = key, !.ret = got.ch]
        /\ heldCh' = IF got.kind = "value" THEN got.ch ELSE heldCh
  /\ UNCHANGED <<notSess, closed, reader_handle, channels, storeReader, storeFile,
                 nCloseFile, nDestroy, nClose, pc>>

\* for ch in f / f.values(): __iter__ hands out each channel of the catalog.
Iterate(i) ==
  /\ Alive
  /\ channels # NoneChannels
  /\ i \in 1..Len(channels)
  /\ heldCh' = channels[i]
  /\ last' = [Last("iter", <<>>, "value", DWSTAT_OK, "none")
                EXCEPT !.ret = channels[i]]
  /\ UNCHANGED <<notSess, closed, reader_handle, channels, storeReader, storeFile,
                 nCloseFile, nDestroy, nClose, pc>>

\* ------------------------------------------------------ DWChannel accessors
\* Each accessor is the sequence of store calls it plans; call number b + k of
\* the whole operation answers St(f, s, b + k).
number_of_samples(ch, f, s, b) ==
  <<Call("DWIGetScaledSamplesCount", "", St(f, s, b + 1), ch.reader_handle, TRUE)>>

chan_prop_int(ch, prop, f, s, b) ==
  <<Call("DWIGetChannelProps", prop, St(f, s, b + 1), ch.reader_handle, TRUE)>>

chan_prop_double(ch, prop, f, s, b) ==
  <<Call("DWIGetChannelProps", prop, St(f, s, b + 1), ch.reader_handle, TRUE)>>

\* A retry of the fetch after an insufficient-buffer answer (not in the code).
chan_prop_str_retry(ch, prop, prop_len, f, s, b) ==
  chan_prop_int(ch, prop_len, f, s, b) \o
  (IF St(f, s, b + 2) = DWSTAT_ERROR_INSUFFICENT_BUFFER
     THEN <<Call("DWIGetChannelProps", prop, St(f, s, b + 2), ch.reader_handle,
                 FALSE),
            Call("DWIGetChannelProps", prop, DWSTAT_OK, ch.reader_handle, TRUE)>>
     ELSE <<Call("DWIGetChannelProps", prop, St(f, s, b + 2), ch.reader_handle,
                 TRUE)>>)

\* The length query, then the fetch into a buffer of that length.
chan_prop_str(ch, prop, prop_len, f, s, b) ==
  chan_prop_int(ch, prop_len, f, s, b) \o
  <<Call("DWIGetChannelProps", prop, St(f, s, b + 2), ch.reader_handle, TRUE)>>

\* array_info on a channel with array_size >= 2.
array_info(ch, f, s, b) ==
  <<Call("DWIGetArrayInfoCount", "", St(f, s, b + 1), ch.reader_handle, TRUE),
    Call("DWIGetArrayInfoList", "", St(f, s, b + 2), ch.reader_handle, TRUE)>>

\* scaled: number_of_samples is read twice, for the buffers and for the call.
scaled(ch, f, s, b) ==
  number_of_samples(ch, f, s, b) \o number_of_samples(ch, f, s, b + 1) \o
  <<Call("DWIGetScaledSamples", "", St(f, s, b + 3), ch.reader_handle, TRUE)>>

\* dataframe: scaled, the column names (for an array channel with one axis
\* whose metadata document lists the labels: array_info, then channel_xml),
\* and number_of_samples once more for the reshape.
dataframe(ch, f, s, b) ==
  scaled(ch, f, s, b) \o
  (IF ch.array_size = 1
     THEN number_of_samples(ch, f, s, b + 3)
     ELSE array_info(ch, f, s, b + 3) \o
          chan_prop_str(ch, "DW_CH_XML", "DW_CH_XML_LEN", f, s, b + 5) \o
          number_of_samples(ch, f, s, b + 7))

\* series_generator up to its first chunk: the count, then one fetch.
series_generator_first(ch, f, s, b) ==
  number_of_samples(ch, f, s, b) \o
  <<Call("DWIGetScaledSamples", "", St(f, s, b + 2), ch.reader_handle, TRUE)>>

reduced(ch, f, s, b) ==
  <<Call("DWIGetReducedValuesCount", "", St(f, s, b + 1), ch.reader_handle, TRUE),
    Call("DWIGetReducedValues", "", St(f, s, b + 2), ch.reader_handle, TRUE)>>

\* The sample-access and property calls of a DWChannel.
SampleOps ==
  {"number_of_samples", "scaled", "series", "series_generator", "reduced",
   "dataframe"}

PropOps ==
  {"scale", "offset", "long_name", "channel_xml", "channel_index",
   "channel_type", "array_info"}

ChanOps == SampleOps \cup PropOps

StrPropOps == {"long_name", "channel_xml", "channel_index"}

ChanPlan(op, ch, f, s) ==
  CASE op = "number_of_samples" -> number_of_samples(ch, f, s, 0)
    [] op = "channel_type" -> chan_prop_int(ch, "DW_CH_TYPE", f, s, 0)
    [] op = "channel_index" ->
         chan_prop_str(ch, "DW_CH_INDEX", "DW_CH_INDEX_LEN", f, s, 0)
    [] op = "channel_xml" ->
         chan_prop_str(ch, "DW_CH_XML", "DW_CH_XML_LEN", f, s, 0)
    [] op = "long_name" ->
         chan_prop_str(ch, "DW_CH_LONGNAME", "DW_CH_LONGNAME_LEN", f, s, 0)
    [] op = "scale" -> chan_prop_double(ch, "DW_CH_SCALE", f, s, 0)
    [] op = "offset" -> chan_prop_double(ch, "DW_CH_OFFSET", f, s, 0)
    [] op = "array_info" ->
         IF ch.array_size < 2 THEN <<>> ELSE array_info(ch, f, s, 0)
    [] op \in {"scaled", "series"} -> scaled(ch, f, s, 0)
    [] op = "dataframe" -> dataframe(ch, f, s, 0)
    [] op = "series_generator" -> series_generator_first(ch, f, s, 0)
    [] op = "reduced" -> reduced(ch, f, s, 0)

\* How op on channel ch ends: ai is scaled's array_index, narr the axis count
\* the store reports to array_info.
ChanOutcome(op, ch, ai, narr, f, s) ==
  LET run == Run(ChanPlan(op, ch, f, s))
  IN IF op = "scaled" /\ ~(0 <= ai /\ ai < ch.array_size)
       THEN [calls |-> <<>>, kind |-> "IndexError", status |-> DWSTAT_OK,
             msg |-> "none"]
       ELSE IF op = "array_info" /\ ch.array_size >= 2 /\ narr < 1 /\
               Len(run.calls) >= 1 /\ run.calls[1].status = DWSTAT_OK
         THEN [calls |-> SubSeq(run.calls, 1, 1), kind |-> "IndexError",
               status |-> DWSTAT_OK, msg |-> "none"]
         ELSE run

\* A call on a DWChannel the caller holds.  The channel passes the handle it
\* was built with; once the store has destroyed the reader behind it the call
\* is a use of a freed handle, which may also bring the process down.
ChannelCall(op, ai, narr, crash) ==
  /\ Alive
  /\ heldCh # NoChannel
  /\ \E f \in 0..Len(ChanPlan(op, heldCh, 0, DWSTAT_OK)), s \in FailStatus :
       /\ Canon(f, s)
       /\ crash => f = 0
       /\ LET out == ChanOutcome(op, heldCh, ai, narr, f, s)
          IN IF crash
               THEN /\ storeReader = "destroyed"
                    /\ Len(out.calls) >= 1
                    /\ pc' = "crashed"
                    /\ last' = Last(op, SubSeq(out.calls, 1, 1), "crash",
                                    DWSTAT_OK, "none")
               ELSE /\ pc' = pc
                    /\ last' = Last(op, out.calls, out.kind, out.status, out.msg)
  /\ UNCHANGED <<notSess, closed, reader_handle, channels, storeReader, storeFile,
                 nCloseFile, nDestroy, nClose, heldCh>>

\* ------------------------------------------------------- DWFile accessors
\* The calls a DWFile method plans, from their names: all checked, all on the
\* session's own reader_handle.
FilePlan(fns, f, s) ==
  [i \in 1..Len(fns) |->
     Call(fns[i][1], fns[i][2], St(f, s, i), reader_handle, TRUE)]

\* header: per entry the text, and the name when the text is kept (non-empty
\* and not a placeholder).
RECURSIVE header_entries(_, _, _)
header_entries(i, n, keep) ==
  IF i > n
    THEN <<>>
    ELSE <<<<"DWIGetHeaderEntryTextF", ToString(i - 1)>>>> \o
         (IF keep[i] THEN <<<<"DWIGetHeaderEntryNameF", ToString(i - 1)>>>>
                     ELSE <<>>) \o
         header_entries(i + 1, n, keep)

header(n, keep) == <<<<"DWIGetHeaderEntryCount", "">>>> \o header_entries(1, n, keep)

events(cnt) ==
  <<<<"DWIGetEventListCount", "">>>> \o
  (IF cnt # 0 THEN <<<<"DWIGetEventList", "">>>> ELSE <<>>)

export_header == <<<<"DWIExportHeader", "">>>>

\* A DWFile method that only calls the store and checks each status.
FileCall(op, fns) ==
  /\ Alive
  /\ \E f \in 0..Len(fns), s \in FailStatus :
       /\ Canon(f, s)
       /\ LET run == Run(FilePlan(fns, f, s))
          IN last' = Last(op, run.calls, run.kind, run.status, run.msg)
  /\ UNCHANGED <<notSess, closed, reader_handle, channels, storeReader, storeFile,
                 nCloseFile, nDestroy, nClose, pc, heldCh>>

Header(n, keep) == FileCall("header", header(n, keep))

Events(cnt) == FileCall("events", events(cnt))

ExportHeader == FileCall("export_header", export_header)

\* DWFile.dataframe(): ch.dataframe() for each channel of the catalog in
\* turn, then pd.concat, which raises ValueError when handed no frame.
RECURSIVE file_dataframe(_, _, _, _, _)
file_dataframe(chs, i, f, s, b) ==
  IF i > Len(chs)
    THEN <<>>
    ELSE LET one == dataframe(chs[i], f, s, b)
         IN one \o file_dataframe(chs, i + 1, f, s, b + Len(one))

FileDataframe(crash) ==
  /\ Alive
  /\ IF channels = NoneChannels
       THEN /\ ~crash
            /\ last' = Last("file_dataframe", <<>>, "TypeError", DWSTAT_OK, "none")
            /\ pc' = pc
       ELSE \E f \in 0..Len(file_dataframe(channels, 1, 0, DWSTAT_OK, 0)),
               s \in FailStatus :
              /\ Canon(f, s)
              /\ crash => f = 0
              /\ LET run == Run(file_dataframe(channels, 1, f, s, 0))
                 IN IF crash
                      THEN /\ storeReader = "destroyed"
                           /\ Len(run.calls) >= 1
                           /\ pc' = "crashed"
                           /\ last' = Last("file_dataframe",
                                           SubSeq(run.calls, 1, 1), "crash",
                                           DWSTAT_OK, "none")
                      ELSE /\ pc' = pc
                           /\ last' =
                                IF run.kind = "ok" /\ Len(channels) = 0
                                  THEN Last("file_dataframe", <<>>, "ValueError",
                                            DWSTAT_OK, "none")
                                  ELSE Last("file_dataframe", run.calls, run.kind,
                                            run.status, run.msg)
  /\ UNCHANGED <<notSess, closed, reader_handle, channels, storeReader, storeFile,
                 nCloseFile, nDestroy, nClose, heldCh>>

\* get_version: DWGetVersionEx is called and its status dropped.
GetVersion(s) ==
  /\ Alive
  /\ last' = Last("get_version",
                  <<Call("DWGetVersionEx", "", s, "None", FALSE)>>, "ok",
                  DWSTAT_OK, "none")
  /\ UNCHANGED <<notSess, closed, reader_handle, channels, storeReader, storeFile,
                 nCloseFile, nDestroy, nClose, pc, heldCh>>

\* The parts of the state a specification does not use.
GenNone ==
  /\ gpc = "none"
  /\ samples = 0
  /\ array_size = 1
  /\ array_index = 0
  /\ req_chunk = 0
  /\ chunk_size = 0
  /\ step = 0
  /\ chunk = 0
  /\ timeCap = 0
  /\ dataCap = 0
  /\ fetches = <<>>
  /\ yielded = 0

UniqNone == upc = "none" /\ time_in = <<>> /\ time_out = <<>> /\ ix = <<>>

ThreadsNone ==
  /\ tpc = [t \in {} |-> "done"]
  /\ top = [t \in {} |-> "close"]
  /\ targ = [t \in {} |-> "None"]
  /\ inStore = {}

\* ------------------------------------------------------------------ Spec
\* The state after DWFile() has run DWICreateReader with success and before
\* open: closed, no catalog, the reader live in the store.
Init ==
  /\ closed = TRUE
  /\ reader_handle = "h"
  /\ channels = NoneChannels
  /\ storeReader = "live"
  /\ storeFile = FALSE
  /\ nCloseFile = 0
  /\ nDestroy = 0
  /\ nClose = 0
  /\ pc = "created"
  /\ heldCh = NoChannel
  /\ last = IdleLast
  /\ GenNone
  /\ UniqNone
  /\ ThreadsNone

\* The inputs of each operation: the statuses the store answers, the catalog
\* it hands back, the key, the header entries.
OpenAny ==
  /\ Alive
  /\ pc = "created"
  /\ \E cat \in Catalogs, f \in 0..4, s \in FailStatus,
        s1 \in Status, s2 \in Status : Open(cat, f, s, s1, s2)

CloseAny ==
  /\ Alive
  /\ nClose < MaxCloses
  /\ \E s1 \in Status, s2 \in Status :
       /\ closed => s1 = DWSTAT_OK /\ s2 = DWSTAT_OK   \* no store call is made
       /\ Close(s1, s2)

GetItemAny == Alive /\ \E key \in Keys : GetItem(key)

IterateAny == Alive /\ \E i \in 1..MaxChannels : Iterate(i)

ChannelCallAny ==
  /\ Alive
  /\ heldCh # NoChannel
  /\ \/ \E op \in ChanOps, crash \in BOOLEAN : ChannelCall(op, 0, 1, crash)
     \/ ChannelCall("scaled", 1, 1, FALSE)
     \/ ChannelCall("array_info", 0, 0, FALSE)

HeaderAny ==
  Alive /\ \E n \in 0..MaxHeader : \E keep \in [1..n -> BOOLEAN] : Header(n, keep)

EventsAny == Alive /\ \E cnt \in 0..1 : Events(cnt)

FileDataframeAny == Alive /\ \E crash \in BOOLEAN : FileDataframe(crash)

GetVersionAny == Alive /\ \E s \in Status : GetVersion(s)

\* The operation returns (its value, or the exception it raised) and the
\* caller goes on; a process that went down does not.
Return ==
  /\ pc # "crashed"
  /\ last.op # "idle"
  /\ last' = IdleLast
  /\ UNCHANGED <<notSess, closed, reader_handle, channels, storeReader, storeFile,
                 nCloseFile, nDestroy, nClose, pc, heldCh>>

Next ==
  \/ Return
  \/ OpenAny
  \/ CloseAny
  \/ GetItemAny
  \/ IterateAny
  \/ ChannelCallAny
  \/ HeaderAny
  \/ EventsAny
  \/ ExportHeader
  \/ FileDataframeAny
  \/ GetVersionAny

Spec == Init /\ [][Next]_vars

\* ------------------------------------------------- np.unique(time, True)
TimeVals == 1..MaxTime

\* The timestamp sequences of length n the store may retrieve.
TimeSeqs(n) == [1..n -> TimeVals]

RECURSIVE SortedSeq(_)
SortedSeq(S) ==
  IF S = {}
    THEN <<>>
    ELSE LET m == CHOOSE x \in S : \A y \in S : x <= y
         IN <<m>> \o SortedSeq(S \ {m})

FirstPos(t, v) ==
  CHOOSE i \in 1..Len(t) : t[i] = v /\ \A j \in 1..(i - 1) : t[j] # v

\* De-duplication that keeps the order of first appearance (pandas.unique).
np_unique_appearance(t) ==
  LET pos == SortedSeq({FirstPos(t, t[i]) - 1 : i \in 1..Len(t)})
  IN [values |-> [k \in 1..Len(pos) |-> t[pos[k] + 1]], index |-> pos]

\* np.unique(t, return_index=True): the distinct values in ascending order,
\* and for each the 0-based position of its first occurrence in t.
np_unique(t) ==
  LET u == SortedSeq({t[i] : i \in 1..Len(t)})
  IN [values |-> u, index |-> [k \in 1..Len(u) |-> FirstPos(t, u[k]) - 1]]

\* dataframe line 323, series_generator line 356: the timestamps retrieved
\* are replaced by np.unique's values, the rows selected by its index.
Dedup ==
  /\ upc = "input"
  /\ LET r == np_unique(time_in)
     IN time_out' = r.values /\ ix' = r.index
  /\ upc' = "done"
  /\ UNCHANGED <<sessVars, genVars, thrVars, time_in>>

\* A channel of an open session, for the specifications that start there.
OneChannel(asz) == DWChannel(0, "a", asz, "h")

SessOpen(asz) ==
  /\ closed = FALSE
  /\ reader_handle = "h"
  /\ channels = <<OneChannel(asz)>>
  /\ storeReader = "live"
  /\ storeFile = TRUE
  /\ nCloseFile = 0
  /\ nDestroy = 0
  /\ nClose = 0
  /\ pc = "opened"
  /\ heldCh = OneChannel(asz)
  /\ last = IdleLast

InitUnique ==
  /\ SessOpen(1)
  /\ GenNone
  /\ ThreadsNone
  /\ upc = "input"
  /\ time_in \in UNION {TimeSeqs(n) : n \in 0..MaxLen}
  /\ time_out = <<>>
  /\ ix = <<>>

SpecUnique == InitUnique /\ [][Dedup]_vars

\* ------------------------------------------------ DWChannel.series_generator
\* The fetch length without the cut at the end of the samples.
ChunkLenUncut(cs, count, c) == cs

\* The length of the fetch at offset c (line 348).
ChunkLen(cs, count, c) == Min(cs, count - c)

\* The locals of series_generator as the next() under way finds them: on the
\* first next() lines 343-347 set them, later ones resume after the yield.
GenStarting == gpc = "created"
GenChunkSize == IF GenStarting THEN Min(req_chunk, samples) ELSE chunk_size
GenTimeCap == IF GenStarting THEN GenChunkSize ELSE timeCap
GenDataCap == IF GenStarting THEN GenChunkSize * array_size ELSE dataCap
GenStep == IF GenStarting THEN GenChunkSize ELSE step
GenChunk == IF GenStarting THEN 0 ELSE chunk
GenLen == ChunkLen(GenChunkSize, samples, GenChunk)

\* The timestamps time[:chunk_size] holds after a fetch.
GenSliceLen ==
  IF GenChunk < samples /\ GenChunkSize > 0
    THEN Min(GenLen, GenTimeCap) ELSE 0

\* One next() on the generator: from its creation, or from the last yield, to
\* the next yield or to its end.  sN is the status answered to
\* number_of_samples, s the one answered to DWIGetScaledSamples, ts the
\* timestamps the store writes (as far as `time` can hold them).  A fetch of
\* more samples than a buffer holds writes past its end, which may bring the
\* process down.
GenNext(sN, s, ts, crash) ==
  LET over == GenLen > GenTimeCap \/ GenLen * array_size > GenDataCap
      fetch == [offset |-> GenChunk, length |-> GenLen,
                timeCap |-> GenTimeCap, dataCap |-> GenDataCap]
      ends(how) ==
        /\ gpc' = how
        /\ chunk_size' = GenChunkSize
        /\ timeCap' = GenTimeCap
        /\ chunk' = GenChunk
        /\ UNCHANGED <<fetches, yielded>>
      fetched(how, cap) ==
        /\ gpc' = how
        /\ chunk_size' = GenLen
        /\ timeCap' = cap
        /\ chunk' = GenChunk
        /\ fetches' = Append(fetches, fetch)
        /\ UNCHANGED yielded
  IN /\ gpc \in {"created", "running"}
     /\ Len(ts) = GenSliceLen
     /\ IF GenStarting /\ sN # DWSTAT_OK
          THEN /\ gpc' = "RuntimeError"
               /\ UNCHANGED <<chunk_size, timeCap, dataCap, step, chunk,
                              fetches, yielded>>
          ELSE /\ dataCap' = GenDataCap
               /\ step' = GenStep
               /\ IF GenStarting /\ GenChunkSize = 0
                    THEN ends("ValueError")            \* range() step of 0
                    ELSE IF GenChunk >= samples
                      THEN ends("done")
                      ELSE IF s # DWSTAT_OK
                        THEN fetched("RuntimeError", GenTimeCap)
                        ELSE IF crash
                          THEN over /\ fetched("crashed", GenTimeCap)
                          ELSE IF ~(array_index < array_size)
                            THEN fetched("IndexError",
                                         Len(np_unique(ts).values))
                            ELSE /\ gpc' = "running"
                                 /\ chunk_size' = GenLen
                                 /\ timeCap' = Len(np_unique(ts).values)
                                 /\ chunk' = GenChunk + GenStep
                                 /\ fetches' = Append(fetches, fetch)
                                 /\ yielded' = yielded + 1
     /\ UNCHANGED <<sessVars, uniqVars, thrVars, samples, array_size,
                    array_index, req_chunk>>

\* The timestamps of a fetch that does not return them.
NoTimes(n) == [i \in 1..n |-> 1]

GenNextAny ==
  /\ gpc \in {"created", "running"}
  /\ \E sN \in Status, s \in Status, crash \in BOOLEAN :
       /\ GenStarting \/ sN = DWSTAT_OK
       /\ sN # DWSTAT_OK => s = DWSTAT_OK /\ ~crash
       /\ s # DWSTAT_OK => ~crash
       /\ \E ts \in TimeSeqs(GenSliceLen) :
            /\ (sN # DWSTAT_OK \/ s # DWSTAT_OK \/ crash)
                 => ts = NoTimes(GenSliceLen)
            /\ GenNext(sN, s, ts, crash)

InitGen ==
  /\ UniqNone
  /\ ThreadsNone
  /\ gpc = "created"
  /\ samples \in 0..MaxSamples
  /\ array_size \in 1..2
  /\ array_index \in 0..1
  /\ req_chunk \in 0..MaxChunk
  /\ chunk_size = req_chunk
  /\ step = 0
  /\ chunk = 0
  /\ timeCap = 0
  /\ dataCap = 0
  /\ fetches = <<>>
  /\ yielded = 0
  /\ SessOpen(array_size)

SpecGen == InitGen /\ [][GenNextAny]_vars

\* ------------------------------------------- threads on one open session
\* Nothing in the module takes a lock, and ctypes releases the interpreter
\* lock for the length of a foreign call, so the statements of two threads
\* interleave and their store calls overlap.  A thread runs close() or
\* scaled() on the session's channel, one statement (or one half of a store
\* call) per step.
Threads == 1..NThreads

ThreadOps == {"close", "scaled"}

\* Thread t moves from statement `from` to statement `to`.
Goto(t, from, to) == tpc[t] = from /\ tpc' = [tpc EXCEPT ![t] = to]

\* Thread t enters a store call, passing handle h.
Enter(t, h) ==
  /\ targ' = [targ EXCEPT ![t] = h]
  /\ inStore' = IF h = "h" THEN inStore \cup {t} ELSE inStore

\* close, line 510: if not self.closed
TCloseTest(t) ==
  /\ top[t] = "close"
  /\ tpc[t] = "start"
  /\ tpc' = [tpc EXCEPT ![t] = IF ~closed THEN "closefile" ELSE "done"]
  /\ UNCHANGED <<sessVars, genVars, uniqVars, top, targ, inStore>>

\* line 511: DLL.DWICloseDataFile(self.reader_handle) is entered
TCloseFileCall(t) ==
  /\ Goto(t, "closefile", "in_closefile")
  /\ Enter(t, reader_handle)
  /\ nCloseFile' = nCloseFile + 1
  /\ UNCHANGED <<genVars, uniqVars, top, closed, reader_handle, channels,
                 storeReader, storeFile, nDestroy, nClose, pc, heldCh, last>>

\* ... and returns; its status is dropped.  line 512: the handle is tested.
TCloseFileReturn(t, s) ==
  /\ tpc[t] = "in_closefile"
  /\ tpc' = [tpc EXCEPT ![t] = IF reader_handle # "None" THEN "destroy"
                                                        ELSE "setclosed"]
  /\ inStore' = inStore \ {t}
  /\ storeFile' = (storeFile /\
                   ~(s = DWSTAT_OK /\ targ[t] = "h" /\ storeReader = "live"))
  /\ UNCHANGED <<genVars, uniqVars, top, targ, closed, reader_handle, channels,
                 storeReader, nCloseFile, nDestroy, nClose, pc, heldCh, last>>

\* line 513: DLL.DWIDestroyReader(self.reader_handle) is entered
TDestroyCall(t) ==
  /\ Goto(t, "destroy", "in_destroy")
  /\ Enter(t, reader_handle)
  /\ nDestroy' = nDestroy + 1
  /\ UNCHANGED <<genVars, uniqVars, top, closed, reader_handle, channels,
                 storeReader, storeFile, nCloseFile, nClose, pc, heldCh, last>>

\* ... and returns; its status is dropped.
TDestroyReturn(t, s) ==
  /\ Goto(t, "in_destroy", "sethandle")
  /\ inStore' = inStore \ {t}
  /\ LET ended == s = DWSTAT_OK /\ targ[t] = "h" /\ storeReader = "live"
     IN /\ storeReader' = IF ended THEN "destroyed" ELSE storeReader
        /\ storeFile' = (storeFile /\ ~ended)
  /\ UNCHANGED <<genVars, uniqVars, top, targ, closed, reader_handle, channels,
                 nCloseFile, nDestroy, nClose, pc, heldCh, last>>

\* line 514: self.reader_handle = None
TSetHandle(t) ==
  /\ Goto(t, "sethandle", "setclosed")
  /\ reader_handle' = "None"
  /\ UNCHANGED <<genVars, uniqVars, top, targ, inStore, closed, channels,
                 storeReader, storeFile, nCloseFile, nDestroy, nClose, pc,
                 heldCh, last>>

\* line 515: self.closed = True
TSetClosed(t) ==
  /\ Goto(t, "setclosed", "setchannels")
  /\ closed' = TRUE
  /\ UNCHANGED <<genVars, uniqVars, top, targ, inStore, reader_handle,
                 channels, storeReader, storeFile, nCloseFile, nDestroy,
                 nClose, pc, heldCh, last>>

\* line 516: self.channels = (DWChannel * 0)()
TSetChannels(t) ==
  /\ Goto(t, "setchannels", "done")
  /\ channels' = <<>>
  /\ nClose' = nClose + 1
  /\ UNCHANGED <<genVars, uniqVars, top, targ, inStore, closed, reader_handle,
                 storeReader, storeFile, nCloseFile, nDestroy, pc, heldCh,
                 last>>

\* scaled on the held channel: its three store calls (lines 302, 306, 305),
\* each entered with the handle the channel keeps.
ScaledAt == <<"start", "count2", "fetch">>
ScaledIn == <<"in_count1", "in_count2", "in_fetch">>

TScaledCall(t, k) ==
  /\ top[t] = "scaled"
  /\ Goto(t, ScaledAt[k], ScaledIn[k])
  /\ Enter(t, heldCh.reader_handle)
  /\ UNCHANGED <<sessVars, genVars, uniqVars, top>>

\* ... and returns: check_lib_status raises on a non-OK status.
TScaledReturn(t, k, s) ==
  /\ tpc[t] = ScaledIn[k]
  /\ tpc' = [tpc EXCEPT ![t] =
               IF s # DWSTAT_OK THEN "raised"
               ELSE IF k < Len(ScaledAt) THEN ScaledAt[k + 1] ELSE "done"]
  /\ inStore' = inStore \ {t}
  /\ UNCHANGED <<sessVars, genVars, uniqVars, top, targ>>

InitConc ==
  /\ SessOpen(1)
  /\ GenNone
  /\ UniqNone
  /\ tpc = [t \in Threads |-> "start"]
  /\ top \in [Threads -> ThreadOps]
  /\ targ = [t \in Threads |-> "None"]
  /\ inStore = {}

NextConc ==
  \E t \in Threads :
    \/ TCloseTest(t)
    \/ TCloseFileCall(t)
    \/ \E s \in Status : TCloseFileReturn(t, s)
    \/ TDestroyCall(t)
    \/ \E s \in Status : TDestroyReturn(t, s)
    \/ TSetHandle(t)
    \/ TSetClosed(t)
    \/ TSetChannels(t)
    \/ \E k \in 1..Len(ScaledAt) : TScaledCall(t, k)
    \/ \E k \in 1..Len(ScaledAt), s \in Status : TScaledReturn(t, k, s)

SpecConc == InitConc /\ [][NextConc]_vars

\* ================================================================ claims
\* The session was opened with success (a crash is only reached from there).
WasOpened == pc \in {"opened", "crashed"}

\* C1: after close() on an opened session, every sample-access and property
\* call, through the DWFile or through a DWChannel taken before the close,
\* fails with an invalid-reader error, and none reaches the store with a
\* handle whose reader is already destroyed.
C1_AfterCloseInvalidReader ==
  (WasOpened /\ last.wasClosed /\ last.op \in ChanOps \cup {"file_dataframe"})
    => /\ last.kind = "RuntimeError"
       /\ last.status = DWSTAT_ERROR_INVALID_READER
       /\ \A i \in 1..Len(last.calls) : ~last.calls[i].stale

\* C2: when a store call of open answers non-OK, open re-raises and every
\* resource acquired so far is released: no data file is left open in the
\* store and the reader made by DWICreateReader is destroyed.
C2_FailedOpenReleases ==
  (last.op = "open" /\ last.kind = "RuntimeError")
    => ~storeFile /\ storeReader = "destroyed"

\* C3: on a session opened with success, DWICloseDataFile and
\* DWIDestroyReader are each issued exactly once, by the first close
\* invocation; a later invocation raises nothing, calls nothing and leaves
\* closed, reader_handle and channels as they were.
C3_CloseOnce ==
  /\ [](pc = "opened" =>
          /\ nCloseFile = (IF closed THEN 1 ELSE 0)
          /\ nDestroy = (IF closed THEN 1 ELSE 0)
          /\ last.op = "close" => last.kind = "ok")
  /\ [][(pc = "opened" /\ last.op = "idle" /\ last'.op = "close") =>
          IF closed
            THEN /\ last'.calls = <<>>
                 /\ UNCHANGED <<closed, reader_handle, channels, nCloseFile,
                                nDestroy, storeReader, storeFile>>
            ELSE /\ Issued(last'.calls, "DWICloseDataFile") = 1
                 /\ Issued(last'.calls, "DWIDestroyReader") = 1
                 /\ closed']_vars

\* A second close has run on an opened, already closed session.
C3_Witness ==
  pc = "opened" /\ last.op = "close" /\ last.wasClosed /\ nClose >= 2

\* C4: for every channel ch of an open session's catalog, the lookup by
\* ch.index and the lookup by ch.name both succeed and return ch.
C4_IndexAndNameLookup ==
  (pc = "opened" /\ ~closed /\ last.op = "getitem")
    => \A i \in 1..Len(channels) :
         ((last.key.type = "int" /\ last.key.index = channels[i].index) \/
          (last.key.type = "str" /\ last.key.name = channels[i].name))
           => last.kind = "value" /\ last.ret = channels[i]

\* C5: a lookup with a key that matches no channel of the open session's
\* catalog raises KeyError, whatever the kind of key.
C5_MissingKeyRaises ==
  (pc = "opened" /\ ~closed /\ last.op = "getitem" /\
   \A i \in 1..Len(channels) :
     /\ last.key.type \in {"int", "DWChannel"} =>
          last.key.index # channels[i].index
     /\ last.key.type \in {"str", "DWChannel"} =>
          last.key.name # channels[i].name)
    => last.kind = "KeyError"

\* The fetches of a string property in the last operation (not the length
\* queries).
StrFetches ==
  {i \in 1..Len(last.calls) :
     /\ last.calls[i].fn = "DWIGetChannelProps"
     /\ last.calls[i].arg \in {"DW_CH_INDEX", "DW_CH_XML", "DW_CH_LONGNAME"}}

ReleaseFns == {"DWICloseDataFile", "DWIDestroyReader"}

\* C8: whenever a store call of any operation answers non-OK, the operation
\* raises a failure carrying that status and the fetched diagnostic text, and
\* makes no further data-producing store call.
C8_EveryStatusChecked ==
  \A i \in 1..Len(last.calls) :
    last.calls[i].status # DWSTAT_OK =>
      /\ last.kind = "RuntimeError"
      /\ last.status = last.calls[i].status
      /\ last.msg = "fetched"
      /\ \A j \in (i + 1)..Len(last.calls) : last.calls[j].fn \in ReleaseFns

\* C6: for sample_count >= 1 and chunk_size in [1, sample_count] the fetches
\* of series_generator start at offset 0, are consecutive, each have
\* 1 <= length <= chunk_size with only the final one shorter, and when the
\* generator ends they sum to sample_count, one chunk yielded per fetch.
C6_ChunksCover ==
  (samples >= 1 /\ req_chunk \in 1..samples) =>
    /\ \A i \in 1..Len(fetches) :
         /\ fetches[i].offset =
              IF i = 1 THEN 0
                       ELSE fetches[i - 1].offset + fetches[i - 1].length
         /\ 1 <= fetches[i].length
         /\ fetches[i].length <= req_chunk
         /\ fetches[i].length < req_chunk =>
              fetches[i].offset + fetches[i].length = samples
    /\ gpc = "running" => yielded = Len(fetches)
    /\ gpc = "done" =>
         /\ yielded = Len(fetches)
         /\ Len(fetches) >= 1
         /\ fetches[Len(fetches)].offset + fetches[Len(fetches)].length
              = samples

\* The generator ended after several chunks, the final one shorter.
C6_Witness ==
  /\ samples >= 1
  /\ req_chunk \in 1..samples
  /\ gpc = "done"
  /\ Len(fetches) >= 2
  /\ fetches[Len(fetches)].length < req_chunk

NoRepeat(t) == \A i, j \in 1..Len(t) : i # j => t[i] # t[j]

Ascending(t) == \A i \in 1..(Len(t) - 1) : t[i] < t[i + 1]

\* C9 as stated: on a timestamp sequence with no repeated value, in whatever
\* order, the de-duplicated index equals the input element for element and
\* the selected row positions are 0, 1, ..., n-1.
C9_UniqueUnchanged ==
  (upc = "done" /\ NoRepeat(time_in)) =>
    /\ time_out = time_in
    /\ ix = [k \in 1..Len(time_in) |-> k - 1]

\* C9 as the code has it: the de-duplication keeps the first occurrence of
\* each timestamp and returns the distinct timestamps in ascending order; on
\* a sequence already strictly ascending it returns the input element for
\* element with row positions 0, 1, ..., n-1.
C9_AscendingUnchanged ==
  upc = "done" =>
    /\ \A k \in 1..Len(time_out) :
         /\ time_in[ix[k] + 1] = time_out[k]
         /\ \A j \in 1..ix[k] : time_in[j] # time_out[k]
    /\ Len(ix) = Len(time_out)
    /\ Ascending(time_out)
    /\ {time_out[k] : k \in 1..Len(time_out)} =
       {time_in[i] : i \in 1..Len(time_in)}
    /\ Ascending(time_in) =>
         /\ time_out = time_in
         /\ ix = [k \in 1..Len(time_in) |-> k - 1]

\* A strictly ascending sequence of several timestamps was de-duplicated.
C9_Witness == upc = "done" /\ Len(time_in) >= 3 /\ Ascending(time_in)

\* C10: calls made by two threads on one session are serialized: at most one
\* store call on the session's reader handle is in progress at a time, and
\* two concurrent close() calls never both issue DWICloseDataFile or
\* DWIDestroyReader.
C10_Serialized ==
  /\ Cardinality(inStore) <= 1
  /\ nCloseFile <= 1
  /\ nDestroy <= 1

\* C11: for a channel the store reports 0 samples for, and chunk_size >= 1,
\* iterating series_generator ends normally: no fetch is issued, no chunk is
\* yielded and no error is raised.  (A failing number_of_samples call, which
\* reports no count at all, is left aside.)
C11_EmptyCompletes ==
  (samples = 0 /\ req_chunk >= 1 /\
   gpc \notin {"created", "running", "RuntimeError"}) =>
    /\ gpc = "done"
    /\ fetches = <<>>
    /\ yielded = 0

\* C12: at every fetch series_generator issues, the array bound to `time`
\* holds at least the number of samples asked for and the array bound to
\* `data` at least that number times array_size.
C12_BuffersHold ==
  \A i \in 1..Len(fetches) :
    /\ fetches[i].length <= fetches[i].timeCap
    /\ fetches[i].length * array_size <= fetches[i].dataCap

====
